---- MODULE Spec2Model ----
(***************************************************************************)
(* Model of src/interface/interface.py: an MQTT subscriber callback        *)
(* (on_message) that decrypts AES-CBC/PKCS7 payloads and writes two        *)
(* module-level dictionaries (dados_cama, ultimos_tempos), and two Flask   *)
(* routes that read them (api_dados with the freshness test, index         *)
(* without it).  The callback runs on the paho network thread, the routes  *)
(* on request threads; no lock is taken anywhere in the source, so the     *)
(* actions below are the individual dictionary reads and writes.           *)
(* The start of the process (bootstrap, mqtt_thread, on_connect) is        *)
(* followed by SpecSessao; Spec and SpecEscrita start from the steady      *)
(* state it reaches (worker process, loop running, connected).             *)
(*                                                                         *)
(* Text is a sequence of Unicode code points, bytes a sequence of 0..255.  *)
(* AES itself is library code and a bijection on block-aligned strings: a  *)
(* ciphertext is named here by the byte string cipher.decrypt maps it to   *)
(* (for a length that is not block-aligned, by its raw bytes).             *)
(***************************************************************************)
EXTENDS Integers, Sequences, FiniteSets, TLC

\* ---------------------------------------------------------------- bounds
\* the clock runs from TempoInicial to MaxTime
MaxTime == 7

\* updates of the store that are followed while requests are served (Spec)
MaxUpdates == 1

\* updates of the store that are followed for the subscriber alone (SpecEscrita)
MaxUpdatesEscrita == 3

\* connection acknowledgments that are followed (SpecSessao)
MaxConnacks == 2

\* ------------------------------------------------------ program constants
AES_block_size == 16

timeout_segundos == 5

\* what time.time() returns when the process starts: seconds since the epoch,
\* a positive number, so that no update is ever stamped with 0
TempoInicial == 1

\* Python's None, as a value distinct from every topic and metric name
None == "<None>"

\* "Aguardando..." as code points
Aguardando == <<65, 103, 117, 97, 114, 100, 97, 110, 100, 111, 46, 46, 46>>

\* TOPICS with the alert topic mapped to a name that is no key of dados_cama
TOPICS_Mut ==
    [t \in {"hospital/cama/temperatura", "hospital/cama/umidade",
            "hospital/cama/angulo", "hospital/cama01/alerta"} |->
        CASE t = "hospital/cama/temperatura" -> "temperatura"
          [] t = "hospital/cama/umidade" -> "umidade"
          [] t = "hospital/cama/angulo" -> "angulo"
          [] t = "hospital/cama01/alerta" -> "alerta01"]

TOPICS ==
    [t \in {"hospital/cama/temperatura", "hospital/cama/umidade",
            "hospital/cama/angulo", "hospital/cama01/alerta"} |->
        CASE t = "hospital/cama/temperatura" -> "temperatura"
          [] t = "hospital/cama/umidade" -> "umidade"
          [] t = "hospital/cama/angulo" -> "angulo"
          [] t = "hospital/cama01/alerta" -> "alerta"]

\* iteration (insertion) order of dados_cama
Campos == <<"temperatura", "umidade", "angulo", "alerta">>

dados_cama_inicial == [k \in {Campos[i] : i \in 1..Len(Campos)} |-> Aguardando]

ultimos_tempos_inicial == [k \in DOMAIN dados_cama_inicial |-> 0]

\* ------------------------------------------------------- dict operations
\* d.get(k, "temperatura"): a default metric instead of None
DictGet_Mut(d, k) == IF k \in DOMAIN d THEN d[k] ELSE "temperatura"

\* d.get(k): the value, or None when the key is absent
DictGet(d, k) == IF k \in DOMAIN d THEN d[k] ELSE None

\* d[k] = v that also overwrites every other entry with v
DictSet_Mut(d, k, v) == [x \in (DOMAIN d) \cup {k} |-> v]

\* d[k] = v: overwrites the entry, or adds the key when it is absent
DictSet(d, k, v) == [x \in (DOMAIN d) \cup {k} |-> IF x = k THEN v ELSE d[x]]

\* truth value of a str-or-None in an `if`
Truthy(s) == s # None /\ s # ""

\* ------------------------------------------------------------ decryption
Falha == [ok |-> FALSE, val |-> <<>>]

Sucesso(v) == [ok |-> TRUE, val |-> v]

\* cipher.decrypt: ValueError unless the length is a multiple of the block
CipherDecrypt(ciphertext) ==
    IF Len(ciphertext) % AES_block_size # 0 THEN Falha ELSE Sucesso(ciphertext)

\* Crypto.Util.Padding.unpad(padded, block_size), style pkcs7
Unpad(padded, block_size) ==
    LET n == Len(padded) IN
    IF n = 0 THEN Falha
    ELSE IF n % block_size # 0 THEN Falha
    ELSE LET padding_len == padded[n]
             m == IF block_size < n THEN block_size ELSE n IN
         IF padding_len < 1 \/ padding_len > m THEN Falha
         ELSE IF \E i \in (n - padding_len + 1)..n : padded[i] # padding_len
              THEN Falha
              ELSE Sucesso(SubSeq(padded, 1, n - padding_len))

decrypt_aes_cbc_pkcs7(ciphertext) ==
    LET decrypted == CipherDecrypt(ciphertext) IN
    IF ~decrypted.ok THEN Falha ELSE Unpad(decrypted.val, AES_block_size)

\* ------------------------------------------------------------- UTF-8
Cont(b) == b >= 128 /\ b <= 191

RECURSIVE Utf8From(_, _, _)
\* bytes.decode('utf-8') (strict) from position i, acc the text decoded so far
Utf8From(bs, i, acc) ==
    IF i > Len(bs) THEN Sucesso(acc)
    ELSE LET b == bs[i]
             r == Len(bs) - i IN
         IF b < 128 THEN Utf8From(bs, i + 1, Append(acc, b))
         ELSE IF b >= 194 /\ b <= 223
           THEN IF r >= 1 /\ Cont(bs[i + 1])
                THEN Utf8From(bs, i + 2,
                         Append(acc, (b - 192) * 64 + (bs[i + 1] - 128)))
                ELSE Falha
         ELSE IF b >= 224 /\ b <= 239
           THEN IF r >= 2 /\ Cont(bs[i + 1]) /\ Cont(bs[i + 2])
                   /\ (b = 224 => bs[i + 1] >= 160)
                   /\ (b = 237 => bs[i + 1] <= 159)
                THEN Utf8From(bs, i + 3,
                         Append(acc, (b - 224) * 4096 + (bs[i + 1] - 128) * 64
                                     + (bs[i + 2] - 128)))
                ELSE Falha
         ELSE IF b >= 240 /\ b <= 244
           THEN IF r >= 3 /\ Cont(bs[i + 1]) /\ Cont(bs[i + 2]) /\ Cont(bs[i + 3])
                   /\ (b = 240 => bs[i + 1] >= 144)
                   /\ (b = 244 => bs[i + 1] <= 143)
                THEN Utf8From(bs, i + 4,
                         Append(acc, (b - 240) * 262144 + (bs[i + 1] - 128) * 4096
                                     + (bs[i + 2] - 128) * 64 + (bs[i + 3] - 128)))
                ELSE Falha
         ELSE Falha

Utf8Decode(bs) == Utf8From(bs, 1, <<>>)

\* str.isspace() of one code point
IsSpace(c) ==
    \/ c \in 9..13
    \/ c \in 28..32
    \/ c \in {133, 160, 5760, 8232, 8233, 8239, 8287, 12288}
    \/ c \in 8192..8202

\* .strip() left out: the text is stored as decoded
Strip_Mut(s) == s

\* str.strip(): drops the leading and the trailing whitespace
Strip(s) ==
    LET keep == {i \in 1..Len(s) : ~IsSpace(s[i])} IN
    IF keep = {} THEN <<>>
    ELSE LET lo == CHOOSE i \in keep : \A j \in keep : i <= j
             hi == CHOOSE i \in keep : \A j \in keep : j <= i IN
         SubSeq(s, lo, hi)

\* lines 67-74 of on_message: the payload text, or Falha for `payload = None`
DecodePayload(ciphertext) ==
    LET decrypted_bytes == decrypt_aes_cbc_pkcs7(ciphertext) IN
    IF ~decrypted_bytes.ok THEN Falha
    ELSE LET txt == Utf8Decode(decrypted_bytes.val) IN
         IF ~txt.ok THEN Falha ELSE Sucesso(Strip(txt.val))

\* the try without its except: a decryption failure escapes the handler
on_message_try_Mut(ciphertext) ==
    [payload |-> DecodePayload(ciphertext), raised |-> ~DecodePayload(ciphertext).ok]

\* lines 67-74: the try/except around decryption.  `except Exception` catches
\* every decryption failure, so nothing escapes the handler.
on_message_try(ciphertext) ==
    [payload |-> DecodePayload(ciphertext), raised |-> FALSE]

\* `if chave:` alone, the test of the payload forgotten
DeveAtualizar_Mut(chave, payload) == Truthy(chave)

\* line 77: `chave and payload is not None`
DeveAtualizar(chave, payload) == Truthy(chave) /\ payload.ok

\* the comparison inverted: no timestamp ever counts as received
JaRecebeu_Mut(t) == t < 0

\* line 208, first conjunct: `ultimos_tempos[campo] > 0`
JaRecebeu(t) == t > 0

\* the operands of the subtraction swapped: no reading is ever stale
Expirou_Inv(agora, t) == t - agora > timeout_segundos

\* `>=` in place of `>`: a reading exactly timeout_segundos old is stale
Expirou_Mut(agora, t) == agora - t >= timeout_segundos

\* line 208, second conjunct: `agora - ultimos_tempos[campo] > timeout_segundos`
Expirou(agora, t) == agora - t > timeout_segundos

\* --------------------------------------------------------------- session
\* iteration (insertion) order of TOPICS
TopicosEmOrdem ==
    <<"hospital/cama/temperatura", "hospital/cama/umidade",
      "hospital/cama/angulo", "hospital/cama01/alerta">>

\* the subscriptions are requested at QoS 0, and the alert topic is left out
on_connect_Mut(rc) ==
    IF rc = 0
    THEN [i \in 1..(Len(TopicosEmOrdem) - 1) |-> [topic |-> TopicosEmOrdem[i], qos |-> 0]]
    ELSE <<>>

\* lines 56-63: the subscribe requests on_connect issues, in order
on_connect(rc) ==
    IF rc = 0
    THEN [i \in 1..Len(TopicosEmOrdem) |-> [topic |-> TopicosEmOrdem[i], qos |-> 1]]
    ELSE <<>>

\* the `return` of line 99 left out: the thread goes on to loop_forever
mqtt_thread_apos_connect_Mut(ok) == "loop"

\* lines 95-101: where mqtt_thread goes after client.connect
mqtt_thread_apos_connect(ok) == IF ok THEN "loop" ELSE "terminada"

\* the thread is started whatever the environment says
ProcessoReal_Mut(env) == TRUE

\* line 219: os.environ.get("WERKZEUG_RUN_MAIN") == "true"
ProcessoReal(env) == env = "true"

\* lines 208-211 for one field: what api_dados answers at `agora` for a record
\* (valor, t)
api_dados_campo(valor, t, agora) ==
    IF JaRecebeu(t) /\ Expirou(agora, t) THEN Aguardando ELSE valor

\* ---------------------------------------------------------------- inputs
\* PKCS7 padding of a plaintext, as the publisher applies it
Pkcs7(p) ==
    LET k == AES_block_size - (Len(p) % AES_block_size) IN
    p \o [i \in 1..k |-> k]

\* "36.5"
Txt365 == <<51, 54, 46, 53>>

\* "ATIVO"
TxtATIVO == <<65, 84, 73, 86, 79>>

\* well-formed: "36.5"
PayloadTemp == Pkcs7(Txt365)

\* well-formed: NBSP (2-byte UTF-8) + "ATIVO" + "\n", trimmed to "ATIVO"
PayloadAtivo == Pkcs7(<<194, 160>> \o TxtATIVO \o <<10>>)

\* length not block-aligned
PayloadCurto == <<51, 54, 46, 53, 12>>

\* padding bytes inconsistent: the last byte asks for 3, the two before differ
PayloadPadRuim == [i \in 1..AES_block_size |-> IF i = AES_block_size THEN 3 ELSE 51]

\* padding length 0
PayloadPadZero == [i \in 1..AES_block_size |-> 0]

\* valid padding, plaintext is not UTF-8 (0xFF)
PayloadNaoUtf8 == Pkcs7(<<51, 255>>)

PayloadsBons == {PayloadTemp, PayloadAtivo}

\* the trimmed plaintext the publisher put in each well-formed payload
TextoDe(payload) ==
    CASE payload = PayloadTemp -> Txt365
      [] payload = PayloadAtivo -> TxtATIVO

PayloadsRuins == {PayloadCurto, PayloadPadRuim, PayloadPadZero, PayloadNaoUtf8}

Payloads == PayloadsBons \cup PayloadsRuins

\* a topic the registry does not know
TopicoOutro == "hospital/cama/outro"

\* the messages delivered, <<topic, payload>>: every payload on the temperature
\* topic, and on each other topic a well-formed and/or a malformed one
Mensagens ==
    ({"hospital/cama/temperatura"} \X Payloads)
    \cup ({"hospital/cama01/alerta"} \X {PayloadAtivo, PayloadCurto})
    \cup ({"hospital/cama/umidade"} \X {PayloadPadZero})
    \cup ({"hospital/cama/angulo"} \X {PayloadPadRuim})
    \cup ({TopicoOutro} \X {PayloadTemp, PayloadNaoUtf8})

\* lines 67-74 evaluated once per payload
TryTab == [p \in Payloads |-> on_message_try(p)]


\* ----------------------------------------------------------------- state
VARIABLES
    dados_cama,      \* line 43: metric -> text
    ultimos_tempos,  \* line 53: metric -> time of the last update, 0 = never
    clock,           \* what time.time() returns now
    loop_vivo,       \* the network loop runs (no exception escaped a callback)
    wr_pc,           \* on_message: "idle", "time" (line 78 done), "store"
    wr_chave,        \* on_message local `chave`
    wr_t,            \* on_message: the time.time() of line 79, before the store
    diag,            \* what the last on_message printed: <<line 71 or 73, line 80, 82 or 84>>
    versao_valor,    \* history: how many times dados_cama[m] was written
    versao_tempo,    \* history: how many times ultimos_tempos[m] was written
    ultimo_texto,    \* history: metric -> plaintext of the last well-formed message for it
    rota,            \* the route being served: None, "api_dados" or "index"
    rd_pc,           \* position in the route
    rd_agora,        \* api_dados local `agora`
    rd_i,            \* fields iterated so far
    rd_campo,        \* local `campo`
    rd_valor,        \* local `valor`
    rd_t1,           \* first read of ultimos_tempos[campo] on line 208
    rd_resposta,     \* local `resposta` / the template arguments
    rd_vv,           \* history: version of the value read into rd_valor
    rd_vt1,          \* history: version of the timestamp read into rd_t1
    env_run_main,    \* os.environ.get("WERKZEUG_RUN_MAIN"), None when unset
    boot_pc,         \* the __main__ block: "main" (at line 219), "run" (past
                     \* line 220, app.run not yet called), "app" (in app.run)
    n_threads,       \* history: subscriber threads started (line 220)
    th_pc,           \* mqtt_thread: "nao_iniciada", "connect", "loop", "terminada"
    conexao,         \* the session: "fechada", "aguardando", "conectado", "recusado"
    connacks,        \* history: the rc of every on_connect call
    pedidos,         \* the subscribe requests issued by the last on_connect
    n_suback         \* subscription acknowledgments received for them

store == <<dados_cama, ultimos_tempos>>

wr_vars == <<loop_vivo, wr_pc, wr_chave, wr_t, diag, versao_valor, versao_tempo,
             ultimo_texto>>

rd_vars == <<rota, rd_pc, rd_agora, rd_i, rd_campo, rd_valor, rd_t1,
             rd_resposta, rd_vv, rd_vt1>>

sess_vars == <<env_run_main, boot_pc, n_threads, th_pc, conexao, connacks,
               pedidos, n_suback>>

vars == <<dados_cama, ultimos_tempos, clock, wr_vars, rd_vars, sess_vars>>

DictVazio == [x \in {} |-> <<>>]

\* the number of writes a history counter records for key k
Versao(v, k) == IF k \in DOMAIN v THEN v[k] ELSE 0

RECURSIVE Soma(_, _)
Soma(v, ks) ==
    IF ks = {} THEN 0
    ELSE LET k == CHOOSE x \in ks : TRUE IN v[k] + Soma(v, ks \ {k})

\* updates begun so far
n_updates == Soma(versao_valor, DOMAIN versao_valor)

\* the steady state of the worker process: the thread is in loop_forever and
\* the first connection was acknowledged with success
SessaoEstavel ==
    /\ env_run_main = "true"
    /\ boot_pc = "app"
    /\ n_threads = 1
    /\ th_pc = "loop"
    /\ conexao = "conectado"
    /\ connacks = <<0>>
    /\ pedidos = on_connect(0)
    /\ n_suback = 0

Init ==
    /\ dados_cama = dados_cama_inicial
    /\ ultimos_tempos = ultimos_tempos_inicial
    /\ clock = TempoInicial
    /\ loop_vivo = TRUE
    /\ wr_pc = "idle"
    /\ wr_chave = None
    /\ wr_t = 0
    /\ diag = <<>>
    /\ versao_valor = [k \in DOMAIN dados_cama_inicial |-> 0]
    /\ versao_tempo = [k \in DOMAIN dados_cama_inicial |-> 0]
    /\ ultimo_texto = DictVazio
    /\ rota = None
    /\ rd_pc = "idle"
    /\ rd_agora = 0
    /\ rd_i = 0
    /\ rd_campo = None
    /\ rd_valor = <<>>
    /\ rd_t1 = 0
    /\ rd_resposta = DictVazio
    /\ rd_vv = 0
    /\ rd_vt1 = 0
    /\ SessaoEstavel

\* time passes
Tick ==
    /\ clock < MaxTime
    /\ clock' = clock + 1
    /\ UNCHANGED <<store, wr_vars, rd_vars, sess_vars>>

\* ------------------------------------------------------------ on_message
\* the decryption-failure branch also resets the metric's timestamp
SemAtualizacao_Mut(chave, ok) ==
    /\ diag' = <<IF ok THEN "recebido" ELSE "erro",
                 IF Truthy(chave) THEN "nao_atualizados" ELSE "nao_reconhecido">>
    /\ ultimos_tempos' =
          IF Truthy(chave) THEN DictSet(ultimos_tempos, chave, 0) ELSE ultimos_tempos
    /\ UNCHANGED dados_cama

\* lines 81-84: the two branches that update nothing; only a line is printed
SemAtualizacao(chave, ok) ==
    /\ diag' = <<IF ok THEN "recebido" ELSE "erro",
                 IF Truthy(chave) THEN "nao_atualizados" ELSE "nao_reconhecido">>
    /\ UNCHANGED store

\* lines 65-78, 81-84: decrypt, look the topic up, and either write the value
\* (line 78) or print why nothing is written.  At most `limite` updates are
\* followed.
OnMessage(topic, payload, limite) ==
    /\ loop_vivo
    /\ wr_pc = "idle"
    /\ ultimo_texto' =
          IF topic \in DOMAIN TOPICS /\ payload \in PayloadsBons
          THEN DictSet(ultimo_texto, TOPICS[topic], TextoDe(payload))
          ELSE ultimo_texto
    /\ LET t == TryTab[payload]
           chave == DictGet(TOPICS, topic) IN
       IF t.raised
       THEN /\ loop_vivo' = FALSE
            /\ UNCHANGED <<store, wr_pc, wr_chave, wr_t, diag, versao_valor>>
       ELSE IF DeveAtualizar(chave, t.payload)
       THEN /\ n_updates < limite
            /\ dados_cama' = DictSet(dados_cama, chave, t.payload.val)
            /\ versao_valor' =
                  DictSet(versao_valor, chave, Versao(versao_valor, chave) + 1)
            /\ wr_pc' = "time"
            /\ wr_chave' = chave
            /\ diag' = <<"recebido">>
            /\ UNCHANGED <<ultimos_tempos, loop_vivo, wr_t>>
       ELSE /\ SemAtualizacao(chave, t.payload.ok)
            /\ UNCHANGED <<loop_vivo, wr_pc, wr_chave, wr_t, versao_valor>>
    /\ UNCHANGED <<clock, versao_tempo, rd_vars, sess_vars>>

\* line 79, right-hand side: time.time()
OnMessageTime ==
    /\ wr_pc = "time"
    /\ wr_t' = clock
    /\ wr_pc' = "store"
    /\ UNCHANGED <<store, clock, loop_vivo, wr_chave, diag, versao_valor,
                   versao_tempo, ultimo_texto, rd_vars, sess_vars>>

\* line 79, the store into ultimos_tempos, and line 80
OnMessageStore ==
    /\ wr_pc = "store"
    /\ ultimos_tempos' = DictSet(ultimos_tempos, wr_chave, wr_t)
    /\ versao_tempo' =
          DictSet(versao_tempo, wr_chave, Versao(versao_tempo, wr_chave) + 1)
    /\ diag' = Append(diag, "atualizados")
    /\ wr_pc' = "idle"
    /\ wr_chave' = None
    /\ wr_t' = 0
    /\ UNCHANGED <<dados_cama, clock, loop_vivo, versao_valor, ultimo_texto, rd_vars,
                   sess_vars>>

\* ------------------------------------------------------------- api_dados
\* lines 204-205
ApiDadosStart ==
    /\ rota = None
    /\ rota' = "api_dados"
    /\ rd_pc' = "iter"
    /\ rd_agora' = clock
    /\ rd_resposta' = DictVazio
    /\ UNCHANGED <<store, clock, wr_vars, sess_vars, rd_i, rd_campo, rd_valor, rd_t1, rd_vv,
                   rd_vt1>>

\* line 206: the iterator yields the next (campo, valor), or the loop ends
ApiDadosIter ==
    /\ rota = "api_dados"
    /\ rd_pc = "iter"
    /\ IF rd_i < Len(Campos)
       THEN /\ rd_i' = rd_i + 1
            /\ rd_campo' = Campos[rd_i + 1]
            /\ rd_valor' = dados_cama[Campos[rd_i + 1]]
            /\ rd_vv' = versao_valor[Campos[rd_i + 1]]
            /\ rd_pc' = "t1"
       ELSE /\ rd_pc' = "ret"
            /\ UNCHANGED <<rd_i, rd_campo, rd_valor, rd_vv>>
    /\ UNCHANGED <<store, clock, wr_vars, sess_vars, rota, rd_agora, rd_resposta, rd_t1, rd_vt1>>

\* line 208, `ultimos_tempos[campo] > 0`; when false, line 211.  The locals of
\* a finished iteration are dead and are cleared.
ApiDadosT1 ==
    /\ rota = "api_dados"
    /\ rd_pc = "t1"
    /\ IF JaRecebeu(ultimos_tempos[rd_campo])
       THEN /\ rd_pc' = "t2"
            /\ rd_t1' = ultimos_tempos[rd_campo]
            /\ rd_vt1' = versao_tempo[rd_campo]
            /\ UNCHANGED <<rd_resposta, rd_campo, rd_valor, rd_vv>>
       ELSE /\ rd_pc' = "iter"
            /\ rd_resposta' = DictSet(rd_resposta, rd_campo, rd_valor)
            /\ rd_campo' = None
            /\ rd_valor' = <<>>
            /\ rd_vv' = 0
            /\ UNCHANGED <<rd_t1, rd_vt1>>
    /\ UNCHANGED <<store, clock, wr_vars, sess_vars, rota, rd_agora, rd_i>>

\* line 209 also writes the sentinel back into the store
ApiDadosT2_Mut ==
    /\ rota = "api_dados"
    /\ rd_pc = "t2"
    /\ rd_resposta' =
          DictSet(rd_resposta, rd_campo,
                  IF Expirou(rd_agora, ultimos_tempos[rd_campo])
                  THEN Aguardando ELSE rd_valor)
    /\ dados_cama' =
          IF Expirou(rd_agora, ultimos_tempos[rd_campo])
          THEN DictSet(dados_cama, rd_campo, Aguardando) ELSE dados_cama
    /\ rd_pc' = "iter"
    /\ rd_campo' = None
    /\ rd_valor' = <<>>
    /\ rd_vv' = 0
    /\ rd_t1' = 0
    /\ rd_vt1' = 0
    /\ UNCHANGED <<ultimos_tempos, clock, wr_vars, sess_vars, rota, rd_agora, rd_i>>

\* line 208, `agora - ultimos_tempos[campo] > timeout_segundos`; lines 209, 211
ApiDadosT2 ==
    /\ rota = "api_dados"
    /\ rd_pc = "t2"
    /\ rd_resposta' =
          DictSet(rd_resposta, rd_campo,
                  IF Expirou(rd_agora, ultimos_tempos[rd_campo])
                  THEN Aguardando ELSE rd_valor)
    /\ rd_pc' = "iter"
    /\ rd_campo' = None
    /\ rd_valor' = <<>>
    /\ rd_vv' = 0
    /\ rd_t1' = 0
    /\ rd_vt1' = 0
    /\ UNCHANGED <<store, clock, wr_vars, sess_vars, rota, rd_agora, rd_i>>

\* ----------------------------------------------------------------- index
\* line 191: the route is entered
IndexStart ==
    /\ rota = None
    /\ rota' = "index"
    /\ rd_pc' = "arg"
    /\ rd_resposta' = DictVazio
    /\ UNCHANGED <<store, clock, wr_vars, sess_vars, rd_agora, rd_i, rd_campo, rd_valor,
                   rd_t1, rd_vv, rd_vt1>>

\* lines 194-197: the next template argument is read from dados_cama; after
\* the last one the page is rendered
IndexArg ==
    /\ rota = "index"
    /\ rd_pc = "arg"
    /\ IF rd_i < Len(Campos)
       THEN /\ rd_i' = rd_i + 1
            /\ rd_resposta' =
                  DictSet(rd_resposta, Campos[rd_i + 1], dados_cama[Campos[rd_i + 1]])
            /\ UNCHANGED rd_pc
       ELSE /\ rd_pc' = "ret"
            /\ UNCHANGED <<rd_i, rd_resposta>>
    /\ UNCHANGED <<store, clock, wr_vars, sess_vars, rota, rd_agora, rd_campo, rd_valor,
                   rd_t1, rd_vv, rd_vt1>>

\* lines 192/212: the response leaves the handler, its locals are gone
Return ==
    /\ rd_pc = "ret"
    /\ rota' = None
    /\ rd_pc' = "idle"
    /\ rd_agora' = 0
    /\ rd_i' = 0
    /\ rd_resposta' = DictVazio
    /\ UNCHANGED <<store, clock, wr_vars, sess_vars, rd_campo, rd_valor, rd_t1, rd_vv, rd_vt1>>

Next ==
    \/ Tick
    \/ \E m \in Mensagens : OnMessage(m[1], m[2], MaxUpdates)
    \/ OnMessageTime
    \/ OnMessageStore
    \/ ApiDadosStart
    \/ ApiDadosIter
    \/ ApiDadosT1
    \/ ApiDadosT2
    \/ IndexStart
    \/ IndexArg
    \/ Return

Spec == Init /\ [][Next]_vars

\* the subscriber alone: no request is served
NextEscrita ==
    \/ Tick
    \/ \E m \in Mensagens : OnMessage(m[1], m[2], MaxUpdatesEscrita)
    \/ OnMessageTime
    \/ OnMessageStore

SpecEscrita == Init /\ [][NextEscrita]_vars

\* only the temperature topic is published to
MensagensTemperatura == {m \in Mensagens : m[1] = "hospital/cama/temperatura"}

\* the subscriber and /api/dados while only the temperature is published
NextTemperatura ==
    \/ Tick
    \/ \E m \in MensagensTemperatura : OnMessage(m[1], m[2], MaxUpdates)
    \/ OnMessageTime
    \/ OnMessageStore
    \/ ApiDadosStart
    \/ ApiDadosIter
    \/ ApiDadosT1
    \/ ApiDadosT2
    \/ Return

SpecTemperatura == Init /\ [][NextTemperatura]_vars

\* ------------------------------------------------- bootstrap and session
\* the values WERKZEUG_RUN_MAIN is given: unset (the watchdog), "true" (the
\* process the reloader starts), and another string
Ambientes == {None, "true", "false"}

\* the status codes of a connection acknowledgment: 0 accepted, 5 not authorised
Rcs == {0, 5}

\* the process has just reached the __main__ block
InitSessao ==
    /\ dados_cama = dados_cama_inicial
    /\ ultimos_tempos = ultimos_tempos_inicial
    /\ clock = TempoInicial
    /\ loop_vivo = FALSE
    /\ wr_pc = "idle"
    /\ wr_chave = None
    /\ wr_t = 0
    /\ diag = <<>>
    /\ versao_valor = [k \in DOMAIN dados_cama_inicial |-> 0]
    /\ versao_tempo = [k \in DOMAIN dados_cama_inicial |-> 0]
    /\ ultimo_texto = DictVazio
    /\ rota = None
    /\ rd_pc = "idle"
    /\ rd_agora = 0
    /\ rd_i = 0
    /\ rd_campo = None
    /\ rd_valor = <<>>
    /\ rd_t1 = 0
    /\ rd_resposta = DictVazio
    /\ rd_vv = 0
    /\ rd_vt1 = 0
    /\ env_run_main \in Ambientes
    /\ boot_pc = "main"
    /\ n_threads = 0
    /\ th_pc = "nao_iniciada"
    /\ conexao = "fechada"
    /\ connacks = <<>>
    /\ pedidos = <<>>
    /\ n_suback = 0

\* lines 215-220: the thread is started in the real process only; from here on
\* it runs concurrently with the rest of the block
Bootstrap ==
    /\ boot_pc = "main"
    /\ boot_pc' = "run"
    /\ IF ProcessoReal(env_run_main)
       THEN /\ n_threads' = n_threads + 1
            /\ th_pc' = "connect"
       ELSE UNCHANGED <<n_threads, th_pc>>
    /\ UNCHANGED <<store, clock, wr_vars, rd_vars, env_run_main, conexao, connacks,
                   pedidos, n_suback>>

\* line 222: the main thread calls app.run
AppRun ==
    /\ boot_pc = "run"
    /\ boot_pc' = "app"
    /\ UNCHANGED <<store, clock, wr_vars, rd_vars, env_run_main, n_threads, th_pc,
                   conexao, connacks, pedidos, n_suback>>

\* lines 88-101: client.connect either returns (the CONNECT packet is sent and
\* loop_forever is entered) or raises (line 98 prints, line 99 returns)
MqttThreadConnect(ok) ==
    /\ th_pc = "connect"
    /\ th_pc' = mqtt_thread_apos_connect(ok)
    /\ loop_vivo' = (th_pc' = "loop")
    /\ conexao' = IF ok THEN "aguardando" ELSE "fechada"
    /\ diag' = IF ok THEN diag ELSE <<"falha_conexao">>
    /\ UNCHANGED <<store, clock, wr_pc, wr_chave, wr_t, versao_valor, versao_tempo,
                   ultimo_texto, rd_vars, env_run_main, boot_pc, n_threads,
                   connacks, pedidos, n_suback>>

\* lines 56-63: the loop calls on_connect with the rc of the acknowledgment
OnConnect(rc) ==
    /\ loop_vivo
    /\ th_pc = "loop"
    /\ wr_pc = "idle"
    /\ conexao = "aguardando"
    /\ Len(connacks) < MaxConnacks
    /\ connacks' = Append(connacks, rc)
    /\ pedidos' = on_connect(rc)
    /\ n_suback' = 0
    /\ conexao' = IF rc = 0 THEN "conectado" ELSE "recusado"
    /\ UNCHANGED <<store, clock, wr_vars, rd_vars, env_run_main, boot_pc, n_threads,
                   th_pc>>

\* line 101: loop_forever connects again after a refused connection
Reconnect ==
    /\ loop_vivo
    /\ th_pc = "loop"
    /\ conexao = "recusado"
    /\ Len(connacks) < MaxConnacks
    /\ conexao' = "aguardando"
    /\ UNCHANGED <<store, clock, wr_vars, rd_vars, env_run_main, boot_pc, n_threads,
                   th_pc, connacks, pedidos, n_suback>>

\* line 60: the broker acknowledges one subscribe request; the result of
\* client.subscribe is printed and nothing waits for the acknowledgment
SubAck ==
    /\ loop_vivo
    /\ conexao = "conectado"
    /\ n_suback < Len(pedidos)
    /\ n_suback' = n_suback + 1
    /\ UNCHANGED <<store, clock, wr_vars, rd_vars, env_run_main, boot_pc, n_threads,
                   th_pc, conexao, connacks, pedidos>>

\* the broker delivers a message over the established session
Entrega(topic, payload) ==
    /\ conexao = "conectado"
    /\ OnMessage(topic, payload, MaxUpdates)

NextSessao ==
    \/ Bootstrap
    \/ AppRun
    \/ \E ok \in BOOLEAN : MqttThreadConnect(ok)
    \/ \E rc \in Rcs : OnConnect(rc)
    \/ Reconnect
    \/ SubAck
    \/ \E m \in Mensagens : Entrega(m[1], m[2])
    \/ OnMessageTime
    \/ OnMessageStore
    \/ Tick

SpecSessao == InitSessao /\ [][NextSessao]_vars

\* ===================================================================
\* Properties
\* ===================================================================
Metricas == {"temperatura", "umidade", "angulo", "alerta"}

\* the metrics a well-formed message has been delivered for
BemFormadas == DOMAIN ultimo_texto

\* the messages on a topic that is not registered
MensagensSemTopico == {m \in Mensagens : m[1] \notin DOMAIN TOPICS}

\* the malformed messages on a registered topic
MensagensRuins == {m \in Mensagens : m[1] \in DOMAIN TOPICS /\ m[2] \in PayloadsRuins}

\* the step of api_dados that assigns resposta[rd_campo] (line 209 or 211)
Decide == rota = "api_dados" /\ rd_pc \in {"t1", "t2"} /\ rd_pc' = "iter"

\* the step of on_message that completes an update (line 79)
Carimba == wr_pc = "store" /\ wr_pc' = "idle"

\* the value and every timestamp read for rd_campo in the iteration that is
\* being decided were written by the same update (update 0 is the initial pair)
ParCoerente ==
    /\ versao_tempo[rd_campo] = rd_vv
    /\ rd_pc = "t2" => rd_vt1 = rd_vv

\* C1: no read judges a value against a timestamp it was not written with:
\* whenever api_dados decides a field, the value it read and the timestamp(s)
\* it compared came from the same update of that metric.
C1_ParEscritoJunto == [][Decide => ParCoerente]_vars

\* C2: a metric last updated at time T with value V, read at now = T + D,
\* D >= 0, is answered V when D <= timeout_segundos and the sentinel when
\* D > timeout_segundos (the threshold S of the program is timeout_segundos),
\* for every read that sees the value and the timestamp of that update.
C2_FrescoOuSentinela ==
    [][(Decide /\ ParCoerente /\ rd_vv >= 1 /\ rd_agora >= ultimos_tempos[rd_campo])
        => rd_resposta'[rd_campo] =
              IF rd_agora - ultimos_tempos[rd_campo] <= timeout_segundos
              THEN rd_valor ELSE Aguardando]_vars

\* the alert, updated once, was read more than timeout_segundos after its
\* update and answered with the sentinel
C2_Witness ==
    /\ rota = "api_dados"
    /\ "alerta" \in DOMAIN rd_resposta
    /\ rd_resposta["alerta"] = Aguardando
    /\ versao_valor["alerta"] = 1
    /\ versao_tempo["alerta"] = 1
    /\ dados_cama["alerta"] = TxtATIVO
    /\ rd_agora - ultimos_tempos["alerta"] = timeout_segundos + 1

\* C3: a metric for which no well-formed message was ever delivered is
\* answered with the sentinel by every snapshot, whatever the time.
C3_NuncaAtualizadaSentinela ==
    rota = "api_dados" =>
        \A m \in DOMAIN rd_resposta :
            m \notin BemFormadas => rd_resposta[m] = Aguardando

\* a snapshot taken late (past the threshold) has answered all four metrics,
\* one of them updated and one never updated
C3_Witness ==
    /\ rota = "api_dados" /\ rd_pc = "ret"
    /\ rd_agora > timeout_segundos
    /\ "temperatura" \in BemFormadas
    /\ "umidade" \notin BemFormadas
    /\ rd_resposta["umidade"] = Aguardando

\* C4: a message on a topic that is not in TOPICS leaves the value and the
\* timestamp of all four metrics unchanged, whether or not its payload
\* decrypts, and the handler returns normally (the loop stays alive).
C4_TopicoDesconhecidoNadaMuda ==
    [][\A m \in MensagensSemTopico :
          OnMessage(m[1], m[2], MaxUpdatesEscrita)
          => (UNCHANGED store /\ loop_vivo' /\ wr_pc' = "idle")]_vars

\* an unknown-topic message whose payload decrypted has been handled after an
\* update
C4_Witness ==
    /\ diag = <<"recebido", "nao_reconhecido">>
    /\ wr_pc = "idle"
    /\ loop_vivo
    /\ n_updates >= 1

\* C5: a message on a registered topic whose payload is not block-aligned,
\* has invalid PKCS7 padding or is not UTF-8 leaves the value and the
\* timestamp of the topic's metric unchanged, and the handler returns so that
\* the next message can be processed.
C5_FalhaDecriptNadaMuda ==
    [][\A m \in MensagensRuins :
          OnMessage(m[1], m[2], MaxUpdatesEscrita)
          => /\ dados_cama'[TOPICS[m[1]]] = dados_cama[TOPICS[m[1]]]
             /\ ultimos_tempos'[TOPICS[m[1]]] = ultimos_tempos[TOPICS[m[1]]]
             /\ loop_vivo'
             /\ wr_pc' = "idle"]_vars

\* a malformed message on the topic of an updated metric has been handled,
\* the record is still the update's, and the handler is ready for the next
C5_Witness ==
    /\ diag = <<"erro", "nao_atualizados">>
    /\ wr_pc = "idle"
    /\ loop_vivo
    /\ versao_tempo["temperatura"] = 1
    /\ dados_cama["temperatura"] = Txt365
    /\ ultimos_tempos["temperatura"] > 0

\* the scenario of C6: temperature updated exactly once, to "36.5", when the
\* process starts (the scenario's time 0); humidity never updated
C6_Situacao ==
    /\ versao_valor["temperatura"] = 1
    /\ versao_tempo["temperatura"] = 1
    /\ dados_cama["temperatura"] = Txt365
    /\ ultimos_tempos["temperatura"] = TempoInicial
    /\ "umidade" \notin BemFormadas

\* C6: in that scenario a snapshot taken 4 after the update answers "36.5"
\* for temperature and the sentinel for humidity, and a snapshot taken 6 after
\* it answers the sentinel for both (each snapshot reading the record of the
\* update).
C6_Cenario ==
    [][(Decide /\ ParCoerente /\ C6_Situacao)
        => /\ (rd_campo = "temperatura" /\ rd_agora = TempoInicial + 4)
                => rd_resposta'["temperatura"] = Txt365
           /\ (rd_campo = "temperatura" /\ rd_agora = TempoInicial + 6)
                => rd_resposta'["temperatura"] = Aguardando
           /\ (rd_campo = "umidade" /\ rd_agora \in {TempoInicial + 4, TempoInicial + 6})
                => rd_resposta'["umidade"] = Aguardando]_vars

\* the snapshot taken 6 after the update has answered the sentinel for both
C6_Witness ==
    /\ rota = "api_dados" /\ rd_pc = "ret"
    /\ C6_Situacao
    /\ rd_agora = TempoInicial + 6
    /\ rd_resposta["temperatura"] = Aguardando
    /\ rd_resposta["umidade"] = Aguardando

\* C7: a well-formed message on a registered topic makes the record of the
\* topic's metric (trimmed plaintext, time read while processing); and a
\* snapshot that reads that record (no later message for the metric) within
\* the threshold, 0 <= now - T <= timeout_segundos, answers the stored
\* plaintext.
C7_BemFormadaVisivel ==
    [][/\ \A m \in DOMAIN ultimo_texto' : dados_cama'[m] = ultimo_texto'[m]
       /\ Carimba
            => /\ ultimos_tempos'[wr_chave] = wr_t
               /\ wr_t <= clock
               /\ dados_cama'[wr_chave] = ultimo_texto[wr_chave]
       /\ (/\ Decide /\ ParCoerente /\ rd_vv >= 1
           /\ versao_valor[rd_campo] = rd_vv
           /\ rd_agora >= ultimos_tempos[rd_campo]
           /\ rd_agora - ultimos_tempos[rd_campo] <= timeout_segundos)
            => rd_resposta'[rd_campo] = ultimo_texto[rd_campo]]_vars

\* the alert, set to "ATIVO" by one message, was read exactly timeout_segundos
\* after its update and answered "ATIVO"
C7_Witness ==
    /\ rota = "api_dados"
    /\ "alerta" \in DOMAIN rd_resposta
    /\ rd_resposta["alerta"] = TxtATIVO
    /\ versao_valor["alerta"] = 1
    /\ versao_tempo["alerta"] = 1
    /\ ultimos_tempos["alerta"] > 0
    /\ rd_agora - ultimos_tempos["alerta"] = timeout_segundos

\* the stored value of m is fresh at time now: its update is still in
\* progress, or its timestamp is at most timeout_segundos old
Fresco(m, now) ==
    \/ versao_tempo[m] < versao_valor[m]
    \/ now - ultimos_tempos[m] <= timeout_segundos

\* C8: every value a read route hands out for a metric is the metric's fresh
\* value or the sentinel: for index at the time of its read, for api_dados at
\* its `agora`.  Stated for metrics whose stored timestamp is positive, that
\* is, that have completed an update.
C8_SoFrescoOuSentinela ==
    [][/\ (rota = "index" /\ rd_pc = "arg" /\ rd_i' = rd_i + 1
           /\ ultimos_tempos[Campos[rd_i']] > 0)
            => \/ rd_resposta'[Campos[rd_i']] = Aguardando
               \/ Fresco(Campos[rd_i'], clock)
       /\ (Decide /\ ParCoerente /\ ultimos_tempos[rd_campo] > 0)
            => \/ rd_resposta'[rd_campo] = Aguardando
               \/ rd_agora - ultimos_tempos[rd_campo] <= timeout_segundos]_vars

\* C9: the timestamp of a metric never decreases and is never cleared; the
\* step that completes an update sets it to the time read while processing.
C9_TempoNaoDecresce ==
    [][/\ \A m \in DOMAIN ultimos_tempos :
            m \in DOMAIN ultimos_tempos' /\ ultimos_tempos'[m] >= ultimos_tempos[m]
       /\ Carimba => ultimos_tempos'[wr_chave] = wr_t]_vars

\* a metric updated twice, the second time later than the first, then a
\* malformed message arrived on its topic
C9_Witness ==
    /\ versao_tempo["temperatura"] = 2
    /\ ultimos_tempos["temperatura"] > 1
    /\ diag = <<"erro", "nao_atualizados">>

\* C10: the key set of the value map and of the timestamp map is the four
\* metrics, in every state.
C10_ChavesFixas ==
    /\ DOMAIN dados_cama = Metricas
    /\ DOMAIN ultimos_tempos = Metricas

\* after an update, an unknown-topic message and a finished read
C10_Witness ==
    /\ n_updates >= 1
    /\ wr_pc = "idle"
    /\ Len(diag) = 2 /\ diag[2] = "nao_reconhecido"
    /\ rd_pc = "ret"

\* a connection acknowledgment other than success has been received
Recusada == \E i \in DOMAIN connacks : connacks[i] # 0

\* C11: once the broker has answered a connection with a status code other
\* than success, the subscriber is stopped for good: no subscribe request is
\* outstanding, the session is never connected afterwards and the store is
\* never updated.
C11_FalhaTerminal ==
    Recusada =>
        /\ conexao # "conectado"
        /\ pedidos = <<>>
        /\ n_updates = 0

\* client.connect raised: line 98 has printed its diagnostic
FalhouConexao == diag = <<"falha_conexao">>

\* the subscriber never ran: no loop, no session, the store as constructed
NuncaRodou ==
    /\ th_pc = "terminada"
    /\ ~loop_vivo
    /\ conexao = "fechada"
    /\ connacks = <<>>
    /\ pedidos = <<>>
    /\ dados_cama = dados_cama_inicial
    /\ ultimos_tempos = ultimos_tempos_inicial

\* C12: when client.connect raises, the message loop is never started, no
\* retry is made, and the store stays all-sentinel (timestamps 0) from then on.
C12_FalhaConexaoFatal ==
    [][/\ FalhouConexao' => NuncaRodou'
       /\ FalhouConexao => (FalhouConexao' /\ UNCHANGED <<store, th_pc, conexao>>)]_vars

\* the connection failed at start and time went by
C12_Witness ==
    /\ FalhouConexao
    /\ n_threads = 1
    /\ boot_pc = "app"
    /\ clock >= timeout_segundos

\* C13: after a connection acknowledgment with rc = 0 the requests issued are
\* one per topic of TOPICS, for no other topic, each at QoS 1; and a message
\* can be processed whatever the number of subscriptions acknowledged.
C13_SubscreveTodosQoS1 ==
    (connacks # <<>> /\ connacks[Len(connacks)] = 0) =>
        /\ {pedidos[i].topic : i \in DOMAIN pedidos} = DOMAIN TOPICS
        /\ Len(pedidos) = Cardinality(DOMAIN TOPICS)
        /\ \A i \in DOMAIN pedidos : pedidos[i].qos = 1
        /\ (loop_vivo /\ wr_pc = "idle" /\ n_updates < MaxUpdates)
              => ENABLED Entrega("hospital/cama/temperatura", PayloadTemp)

\* a message updated the store before any subscription was acknowledged
C13_Witness ==
    /\ connacks = <<0>>
    /\ Len(pedidos) = 4
    /\ n_suback = 0
    /\ versao_tempo["temperatura"] = 1

\* C14: no step of a read route and no passing of time changes the store; a
\* metric api_dados has answered with the sentinel still has its last real
\* value stored.
C14_LeituraNaoEscreve ==
    [][/\ (rd_vars' # rd_vars \/ clock' # clock) => UNCHANGED store
       /\ rota' = "api_dados" =>
             \A m \in DOMAIN rd_resposta' :
                 (rd_resposta'[m] = Aguardando /\ m \in DOMAIN ultimo_texto')
                     => dados_cama'[m] = ultimo_texto'[m]]_vars

\* api_dados answered the sentinel for the temperature, updated more than
\* timeout_segundos before, and "36.5" is still stored with its timestamp
C14_Witness ==
    /\ rota = "api_dados"
    /\ "temperatura" \in DOMAIN rd_resposta
    /\ rd_resposta["temperatura"] = Aguardando
    /\ dados_cama["temperatura"] = Txt365
    /\ ultimos_tempos["temperatura"] > 0
    /\ rd_agora - ultimos_tempos["temperatura"] > timeout_segundos

\* C15: api_dados answers the sentinel for a metric never received, for a
\* metric that is stale, and for a metric whose latest message failed to
\* decrypt.  Stated for coherent reads and positive timestamps, and for the
\* temperature, the only topic published to, so that the last diagnostic
\* names the metric.
C15_TresCausasSentinela ==
    [][(Decide /\ ParCoerente /\ rd_campo = "temperatura")
        => /\ "temperatura" \notin BemFormadas
                => rd_resposta'["temperatura"] = Aguardando
           /\ (ultimos_tempos["temperatura"] > 0
               /\ rd_agora - ultimos_tempos["temperatura"] > timeout_segundos)
                => rd_resposta'["temperatura"] = Aguardando
           /\ (ultimos_tempos["temperatura"] > 0
               /\ diag = <<"erro", "nao_atualizados">>)
                => rd_resposta'["temperatura"] = Aguardando]_vars

\* C16: a message on an unresolved topic leaves the unknown-topic diagnostic
\* only: no decryption outcome (line 71 or 73) is recorded for it.
C16_TopicoAntesDeDecifrar ==
    (\E i \in DOMAIN diag : diag[i] = "nao_reconhecido")
        => diag = <<"nao_reconhecido">>

\* C17: the stored value of every metric is the trimmed plaintext of the
\* last well-formed message delivered on its topic, or the sentinel when
\* there was none, whatever other messages were delivered in between.
C17_UltimaBemFormadaVence ==
    \A m \in Metricas :
        dados_cama[m] = IF m \in DOMAIN ultimo_texto THEN ultimo_texto[m]
                        ELSE Aguardando

\* the temperature was written three times, last with "ATIVO", and the
\* latest message was on an unknown topic
C17_Witness ==
    /\ versao_tempo["temperatura"] = 3
    /\ dados_cama["temperatura"] = TxtATIVO
    /\ Len(diag) = 2 /\ diag[2] = "nao_reconhecido"

\* C18: each step of an update leaves the value and the timestamp of every
\* metric other than the updated one as they were, and with them what
\* api_dados answers for those metrics at any instant.
C18_SoAMetricaAtualizada ==
    [][wr_pc' # wr_pc =>
         LET alvo == IF wr_pc = "idle" THEN wr_chave' ELSE wr_chave IN
         \A m \in Metricas \ {alvo} :
             /\ dados_cama'[m] = dados_cama[m]
             /\ ultimos_tempos'[m] = ultimos_tempos[m]
             /\ \A agora \in TempoInicial..MaxTime :
                   api_dados_campo(dados_cama'[m], ultimos_tempos'[m], agora)
                   = api_dados_campo(dados_cama[m], ultimos_tempos[m], agora)]_vars

\* the alert was updated after the temperature, which kept its record
C18_Witness ==
    /\ versao_tempo["temperatura"] = 1
    /\ versao_tempo["alerta"] = 1
    /\ dados_cama["temperatura"] = Txt365
    /\ dados_cama["alerta"] = TxtATIVO
    /\ ultimos_tempos["temperatura"] > 0
    /\ ultimos_tempos["alerta"] > ultimos_tempos["temperatura"]

\* C19: at most one subscriber thread is ever started in a process, and none
\* unless WERKZEUG_RUN_MAIN is "true": in the watchdog process no loop runs
\* and the store is never written.
C19_IniciaUmaVez ==
    /\ n_threads <= 1
    /\ loop_vivo => n_threads = 1
    /\ (boot_pc # "main" /\ env_run_main = "true") => n_threads = 1
    /\ env_run_main # "true" =>
          /\ n_threads = 0
          /\ th_pc = "nao_iniciada"
          /\ ~loop_vivo
          /\ n_updates = 0

\* the real process started its one thread, which went on to update the store
\* before the main thread called app.run
C19_Witness ==
    /\ env_run_main = "true"
    /\ boot_pc = "run"
    /\ n_threads = 1
    /\ th_pc = "loop"
    /\ n_updates = 1
====
